---- MODULE Spec2Model ----
(***************************************************************************)
(* Online Retail ETL pipeline: the cleaner (01_scripts/cleaner.py), the    *)
(* loader (01_scripts/database.py) and the orchestration                   *)
(* (01_scripts/main.py).                                                   *)
(*                                                                         *)
(* Representation.                                                         *)
(*  - A Python string is a sequence of one-character strings, so that      *)
(*    lower-casing, prefix tests, formatting and parsing are computed.     *)
(*  - A DataFrame is [columns, rows]: a sequence of column labels and a    *)
(*    sequence of rows, each row a sequence of cells aligned with columns.  *)
(*  - A cell is [k, n, s]: k = "num" (number n), "str" (string s),         *)
(*    "ts" (timestamp, n ticks) or "na" (None / NaN / NaT).                *)
(*  - Time is counted in ticks; TicksPerSecond ticks make one second, the  *)
(*    resolution of '%Y-%m-%d %H:%M:%S' and of a DATETIME column.          *)
(*  - Money is counted in hundredths, the resolution of DECIMAL(12,2).     *)
(***************************************************************************)
EXTENDS Integers, Sequences, FiniteSets, TLC

VARIABLES
    \* ---- the MySQL server ----
    tables_exist,   \* the three tables have been created (committed DDL)
    customers,      \* committed customers table: customer_id -> row
    products,       \* committed products table: stock_code -> row
    transactions,   \* committed transactions table, in id order
    \* ---- the loading connection (load() / load_data) ----
    conn,           \* uncommitted view of the open connection, or NoConn
    lpc,            \* position inside load(): "idle", "create", "begin", ...
    ldf,            \* load_data's local df (after the watermark filter)
    lfull,          \* load_data's full_refresh argument
    lcommits,       \* number of commits issued by the current load_data call
    lerr,           \* the exception that ended the current / last load, "" if none
    \* ---- the pipeline run (run_pipeline) ----
    op,             \* what is running or ran last: "none", "pipeline", "load_data"
    args,           \* the parsed command line of the current / last run
    raw,            \* the extracted batch (pd.read_excel)
    clean_df,       \* the batch returned by transform(), or the empty frame
    run_result,     \* "none", "running", "True", "False"
    metrics_file,   \* content of logs/cleaning_metrics.json, or NoMetrics
    runs,           \* number of operations started so far
    \* ---- one call of clean_data, step by step ----
    cpc,            \* position inside clean_data
    cin,            \* the argument of the call
    cdf,            \* clean_data's local df
    cmetrics,       \* clean_data's local metrics dict
    cerr,           \* the exception raised, "" if none
    \* ---- one call of download_dataset / download_with_retry ----
    dcall,          \* which of the two was called, or "none"
    dpc,            \* position: "idle", "next_url", "request", "sleep", "verify", "done"
    nurls,          \* len(DATASET_URLS)
    durl,           \* index of the URL being tried
    max_retries,    \* download_with_retry's argument
    attempt,        \* download_with_retry's loop variable
    dfile,          \* the file at file_path
    dret,           \* what download_with_retry returned (expected_size)
    dlog,           \* per URL tried: the requests made and the waits slept
    dresult         \* what download_dataset returned or raised, or "none"

storeVars == <<tables_exist, customers, products, transactions>>
loadVars  == <<conn, lpc, ldf, lfull, lcommits, lerr>>
runVars   == <<op, args, raw, clean_df, run_result, metrics_file, runs>>
cleanVars == <<cpc, cin, cdf, cmetrics, cerr>>
downVars == <<dcall, dpc, nurls, durl, max_retries, attempt, dfile, dret, dlog, dresult>>
vars == <<storeVars, loadVars, runVars, cleanVars, downVars>>

---------------------------------------------------------------------------
(* Bounds of the model.                                                    *)
MaxRows == 2          \* rows of an extracted batch
MaxRuns == 2          \* operations (pipeline runs, load_data calls) in a behaviour
MaxTick == 3          \* the latest invoice_date of the data, in ticks
TicksPerSecond == 2   \* sub-second resolution of a pandas Timestamp

---------------------------------------------------------------------------
(* Characters and strings.                                                 *)
UpperChars == <<"A","B","C","D","E","F","G","H","I","J","K","L","M",
                "N","O","P","Q","R","S","T","U","V","W","X","Y","Z">>
LowerChars == <<"a","b","c","d","e","f","g","h","i","j","k","l","m",
                "n","o","p","q","r","s","t","u","v","w","x","y","z">>
DigitChars == <<"0","1","2","3","4","5","6","7","8","9">>

Range(f) == {f[i] : i \in DOMAIN f}

UpperSet == Range(UpperChars)
LowerAlnumSet == Range(LowerChars) \cup Range(DigitChars)
DigitSet == Range(DigitChars)
LowerOf == [c \in UpperSet |-> LowerChars[CHOOSE i \in 1..Len(UpperChars) : UpperChars[i] = c]]
DigitValue == [c \in DigitSet |-> (CHOOSE i \in 1..Len(DigitChars) : DigitChars[i] = c) - 1]

IsUpper(c) == c \in UpperSet
IsLowerAlnum(c) == c \in LowerAlnumSet
IsDigit(c) == c \in DigitSet

\* str.lower(), one character
LowerChar(c) == IF IsUpper(c) THEN LowerOf[c] ELSE c

\* Index.str.lower()
StrLower(s) == [i \in 1..Len(s) |-> LowerChar(s[i])]

RECURSIVE SkipNonAlnum(_)
SkipNonAlnum(s) ==
    IF s = <<>> \/ IsLowerAlnum(Head(s)) THEN s ELSE SkipNonAlnum(Tail(s))

\* .str.replace(r'[^a-z0-9]+', '_', regex=True)
RECURSIVE ReplaceNonAlnum(_)
ReplaceNonAlnum(s) ==
    IF s = <<>> THEN <<>>
    ELSE IF IsLowerAlnum(Head(s)) THEN <<Head(s)>> \o ReplaceNonAlnum(Tail(s))
    ELSE <<"_">> \o ReplaceNonAlnum(SkipNonAlnum(Tail(s)))

RECURSIVE LStrip(_)
LStrip(s) == IF s # <<>> /\ Head(s) = "_" THEN LStrip(Tail(s)) ELSE s

RECURSIVE RStrip(_)
RStrip(s) ==
    IF s # <<>> /\ s[Len(s)] = "_" THEN RStrip(SubSeq(s, 1, Len(s) - 1)) ELSE s

\* .str.strip('_')
StripUnderscore(s) == RStrip(LStrip(s))

\* df.columns.str.lower().str.replace(...).str.strip('_'), one label
StandardizeLabel(s) == StripUnderscore(ReplaceNonAlnum(StrLower(s)))

\* the canonical column names
customer_id  == <<"c","u","s","t","o","m","e","r","_","i","d">>
invoice      == <<"i","n","v","o","i","c","e">>
stock_code   == <<"s","t","o","c","k","_","c","o","d","e">>
invoice_date == <<"i","n","v","o","i","c","e","_","d","a","t","e">>
price        == <<"p","r","i","c","e">>
quantity     == <<"q","u","a","n","t","i","t","y">>
description  == <<"d","e","s","c","r","i","p","t","i","o","n">>
country      == <<"c","o","u","n","t","r","y">>
total_amount == <<"t","o","t","a","l","_","a","m","o","u","n","t">>

\* column_mapping of clean_data, as <<key, value>> pairs
column_mapping ==
    { << <<"c","u","s","t","o","m","e","r","i","d">>, customer_id >>,
      << customer_id, customer_id >>,
      << <<"c","u","s","t","o","m","e","r">>, customer_id >>,
      << <<"c","u","s","t","o","m","e","r"," ","i","d">>, customer_id >>,
      << <<"i","n","v","o","i","c","e","n","o">>, invoice >>,
      << <<"i","n","v","o","i","c","e","_","n","o">>, invoice >>,
      << <<"i","n","v","o","i","c","e"," ","n","o">>, invoice >>,
      << invoice, invoice >>,
      << <<"s","t","o","c","k","c","o","d","e">>, stock_code >>,
      << stock_code, stock_code >>,
      << <<"s","t","o","c","k"," ","c","o","d","e">>, stock_code >>,
      << <<"i","n","v","o","i","c","e","d","a","t","e">>, invoice_date >>,
      << invoice_date, invoice_date >>,
      << <<"i","n","v","o","i","c","e"," ","d","a","t","e">>, invoice_date >>,
      << <<"u","n","i","t","p","r","i","c","e">>, price >>,
      << <<"u","n","i","t","_","p","r","i","c","e">>, price >>,
      << <<"u","n","i","t"," ","p","r","i","c","e">>, price >>,
      << price, price >>,
      << quantity, quantity >>,
      << description, description >>,
      << country, country >> }

InMapping(col) == \E p \in column_mapping : p[1] = col
MapLabel(col) == (CHOOSE p \in column_mapping : p[1] = col)[2]

\* the dict renamed_cols, as the set of its keys
renamed_cols(cols) ==
    {cols[i] : i \in {j \in 1..Len(cols) : InMapping(cols[j]) /\ MapLabel(cols[j]) # cols[j]}}

\* df.rename(columns=renamed_cols), one label
RenameLabel(col) == IF InMapping(col) THEN MapLabel(col) ELSE col

---------------------------------------------------------------------------
(* Cells.                                                                  *)
Num(n) == [k |-> "num", n |-> n, s |-> <<>>]
Str(s) == [k |-> "str", n |-> 0, s |-> s]
Ts(t)  == [k |-> "ts",  n |-> t, s |-> <<>>]
NA     == [k |-> "na",  n |-> 0, s |-> <<>>]

isna(c) == c.k = "na"

RECURSIVE NatToStr(_)
NatToStr(n) ==
    IF n < 10 THEN <<DigitChars[n + 1]>>
    ELSE NatToStr(n \div 10) \o <<DigitChars[(n % 10) + 1]>>

\* str() of a Python int
IntToStr(n) == IF n < 0 THEN <<"-">> \o NatToStr(-n) ELSE NatToStr(n)

RECURSIVE StrToNat(_)
StrToNat(s) ==
    IF s = <<>> THEN 0
    ELSE 10 * StrToNat(SubSeq(s, 1, Len(s) - 1)) + DigitValue[s[Len(s)]]

---------------------------------------------------------------------------
(* DataFrames.                                                             *)
EmptyFrame == [columns |-> <<>>, rows |-> <<>>]

HasCol(df, col) == \E i \in 1..Len(df.columns) : df.columns[i] = col
ColIdx(df, col) == CHOOSE i \in 1..Len(df.columns) : df.columns[i] = col
Cell(df, r, col) == df.rows[r][ColIdx(df, col)]
Val(df, row, col) == row[ColIdx(df, col)]

\* df[mask]: the rows satisfying Keep(row), in order
RECURSIVE SelectSeq2(_, _)
SelectSeq2(rows, keep) ==
    IF rows = <<>> THEN <<>>
    ELSE (IF keep[1] THEN <<Head(rows)>> ELSE <<>>)
         \o SelectSeq2(Tail(rows), Tail(keep))

Filter(df, keep) == [df EXCEPT !.rows = SelectSeq2(df.rows, keep)]

\* df[col] = values
SetCol(df, col, values) ==
    IF HasCol(df, col)
    THEN [df EXCEPT !.rows = [r \in 1..Len(df.rows) |->
              [df.rows[r] EXCEPT ![ColIdx(df, col)] = values[r]]]]
    ELSE [columns |-> Append(df.columns, col),
          rows |-> [r \in 1..Len(df.rows) |-> Append(df.rows[r], values[r])]]

Count(S) == Cardinality(S)

---------------------------------------------------------------------------
(* clean_data (cleaner.py).  A call in progress is st = [df, metrics, err]: *)
(* the local df, the local metrics dict and the exception raised ("" if    *)
(* none).  Dicts are functions over the set of their keys.                  *)
EmptyDict == [x \in {} |-> 0]
DictSet(d, key, v) == [x \in DOMAIN d \cup {key} |-> IF x = key THEN v ELSE d[x]]
DictGet(d, key) == IF key \in DOMAIN d THEN d[key] ELSE 0

\* round(n / d, 4), in ten-thousandths (n >= 0, d > 0)
Round4(n, d) == (2 * 10000 * n + d) \div (2 * d)

\* the dict built at the top of clean_data
InitMetrics(df) ==
    [original_rows   |-> Len(df.rows),
     rejected_rows   |-> 0,
     cleaned_rows    |-> 0,
     rejection_rate  |-> 0,
     transformations |-> <<>>,
     missing_values  |-> EmptyDict,
     invalid_values  |-> EmptyDict]

Transformed(m, what) == [m EXCEPT !.transformations = Append(@, what)]

\* 1. Standardize column names
\* the same, keeping only the columns the mapping knows
StandardizeColumnsKnownOnly(st) ==
    LET cols  == [i \in 1..Len(st.df.columns) |-> StandardizeLabel(st.df.columns[i])]
        known == [i \in 1..Len(cols) |-> InMapping(cols[i])]
    IN  [st EXCEPT
           !.df = [columns |-> SelectSeq2([i \in 1..Len(cols) |-> RenameLabel(cols[i])], known),
                   rows    |-> [r \in 1..Len(st.df.rows) |-> SelectSeq2(st.df.rows[r], known)]],
           !.metrics = IF renamed_cols(cols) # {} THEN Transformed(@, "Renamed columns") ELSE @]

StandardizeColumns(st) ==
    LET cols == [i \in 1..Len(st.df.columns) |-> StandardizeLabel(st.df.columns[i])]
        ren  == renamed_cols(cols)
    IN  [st EXCEPT
           !.df.columns = [i \in 1..Len(cols) |-> RenameLabel(cols[i])],
           !.metrics = IF ren # {} THEN Transformed(@, "Renamed columns") ELSE @]

required_columns == {customer_id, invoice, stock_code, invoice_date, quantity, price}

missing_columns(df) == required_columns \ Range(df.columns)

\* Verify required columns exist after renaming
VerifyRequiredOff(st) == st
VerifyRequired(st) ==
    IF missing_columns(st.df) # {} THEN [st EXCEPT !.err = "KeyError"] ELSE st

\* a column read from a sheet is float64 when it holds numbers and blanks
IsFloatCol(df, col) ==
    /\ \E r \in 1..Len(df.rows) : isna(Cell(df, r, col))
    /\ \A r \in 1..Len(df.rows) : Cell(df, r, col).k \in {"na", "num"}

\* str() of one value of a column, as .astype(str) applies it
AsStr(c, float) ==
    CASE c.k = "str" -> c
      [] c.k = "num" -> Str(IF float THEN IntToStr(c.n) \o <<".", "0">> ELSE IntToStr(c.n))
      [] OTHER       -> Str(<<"n","a","n">>)

GUEST   == <<"G","U","E","S","T">>
UNKNOWN == <<"U","N","K","N","O","W","N">>

\* 2. Handle missing values, one column of ['customer_id', 'description']
FillMissingSkip(st, col, key) == st
FillMissing(st, col, key) ==
    IF ~HasCol(st.df, col) THEN st
    ELSE LET df == st.df
             missing == Count({r \in 1..Len(df.rows) : isna(Cell(df, r, col))})
             float == IsFloatCol(df, col)
             filled(c) == IF col = customer_id
                          THEN AsStr(IF isna(c) THEN Str(GUEST) ELSE c, float)
                          ELSE IF isna(c) THEN Str(UNKNOWN) ELSE c
         IN  IF missing = 0 THEN st
             ELSE [st EXCEPT
                     !.df = SetCol(df, col, [r \in 1..Len(df.rows) |-> filled(Cell(df, r, col))]),
                     !.metrics = Transformed(
                         [@ EXCEPT !.missing_values = DictSet(@, key, missing)],
                         "Filled missing " \o key)]

HandleMissing(st) ==
    FillMissing(FillMissing(st, customer_id, "customer_id"), description, "description")

\* pd.to_datetime of one value: a timestamp, NaT, or no timestamp at all
Parseable(c) ==
    c.k \in {"ts", "na", "num"} \/ (c.s # <<>> /\ \A i \in 1..Len(c.s) : IsDigit(c.s[i]))
to_datetime(c) ==
    CASE c.k = "ts"  -> c
      [] c.k = "na"  -> NA
      [] c.k = "num" -> Ts(c.n)
      [] OTHER       -> Ts(StrToNat(c.s))

\* 3. Data type conversions
ConvertDates(st) ==
    LET df == st.df
        n  == Len(df.rows)
    IN  IF ~HasCol(df, invoice_date) THEN st
        ELSE IF \E r \in 1..n : ~Parseable(Cell(df, r, invoice_date))
        THEN [st EXCEPT !.err = "ValueError"]
        ELSE [st EXCEPT
                !.df = SetCol(df, invoice_date,
                          [r \in 1..n |-> to_datetime(Cell(df, r, invoice_date))]),
                !.metrics = Transformed(@, "Converted invoice_date to datetime")]

ConvertCustomer(st) ==
    LET df == st.df
        n  == Len(df.rows)
    IN  IF ~HasCol(df, customer_id) THEN st
        ELSE [st EXCEPT
                !.df = SetCol(df, customer_id,
                          [r \in 1..n |-> AsStr(Cell(df, r, customer_id), FALSE)]),
                !.metrics = Transformed(@, "Converted customer_id to string")]

ConvertTypes(st) ==
    LET s1 == ConvertDates(st) IN IF s1.err # "" THEN s1 ELSE ConvertCustomer(s1)

\* .astype(str).str.startswith(('C', 'A'), na=False), one value
IsTestTransactionNone(c) == FALSE
IsTestTransaction(c) ==
    LET s == AsStr(c, FALSE).s IN s # <<>> /\ s[1] \in {"C", "A"}

\* 4. Remove test transactions
RemoveTestTransactions(st) ==
    LET df == st.df
        test_trans == [r \in 1..Len(df.rows) |->
                          HasCol(df, invoice) /\ IsTestTransaction(Cell(df, r, invoice))]
        n == Count({r \in 1..Len(df.rows) : test_trans[r]})
    IN  IF ~HasCol(df, invoice) \/ n = 0 THEN st
        ELSE [st EXCEPT
                !.df = Filter(df, [r \in 1..Len(df.rows) |-> ~test_trans[r]]),
                !.metrics = Transformed(
                    [@ EXCEPT !.invalid_values = DictSet(@, "test_transactions", n)],
                    "Removed test transactions")]

\* check = lambda x: x <= 0, on one value (a missing value compares False)
NotPositive(c) == c.k = "num" /\ c.n <= 0

\* Validate with the assignment df = df[~check(df[col])] left out
ValidateCountOnly(st, col, key) ==
    LET df == st.df
        n  == Len(df.rows)
        invalid == Count({r \in 1..n : NotPositive(Cell(df, r, col))})
    IN  IF invalid = 0 THEN st
        ELSE [st EXCEPT !.metrics = Transformed(
                 [@ EXCEPT !.invalid_values = DictSet(@, key, invalid)],
                 "Removed invalid " \o key \o " values")]

\* 5. Validate quantities and prices, one column of the loop
Validate(st, col, key) ==
    LET df == st.df
        n  == Len(df.rows)
    IN  IF ~HasCol(df, col) THEN st
        ELSE IF \E r \in 1..n : Cell(df, r, col).k \notin {"num", "na"}
        THEN [st EXCEPT !.err = "TypeError"]
        ELSE LET invalid == Count({r \in 1..n : NotPositive(Cell(df, r, col))})
             IN  IF invalid = 0 THEN st
                 ELSE [st EXCEPT
                         !.df = Filter(df, [r \in 1..n |-> ~NotPositive(Cell(df, r, col))]),
                         !.metrics = Transformed(
                             [@ EXCEPT !.invalid_values = DictSet(@, key, invalid)],
                             "Removed invalid " \o key \o " values")]

ValidateQuantity(st) == Validate(st, quantity, "quantity")
ValidatePrice(st) == Validate(st, price, "price")

\* quantity * price of one row (NaN when either is missing)
Times(q, p) == IF q.k = "num" /\ p.k = "num" THEN Num(q.n * p.n) ELSE NA

\* 6. Calculate derived metrics
DeriveTotal(st) ==
    LET df == st.df IN
    IF ~(HasCol(df, quantity) /\ HasCol(df, price)) THEN st ELSE
    [st EXCEPT
       !.df = SetCol(df, total_amount,
                 [r \in 1..Len(df.rows) |-> Times(Cell(df, r, quantity), Cell(df, r, price))]),
       !.metrics = Transformed(@, "Calculated total_amount")]

\* "Calculate metrics safely" and the return; the lines after the return never run
FinalMetrics(st) ==
    LET m == st.metrics IN
    [st EXCEPT
       !.metrics = [m EXCEPT
           !.rejection_rate = IF m.original_rows = 0 THEN 0
                              ELSE Round4(m.rejected_rows, m.original_rows),
           !.cleaned_rows = Len(st.df.rows)]]

\* "if len(df) == 0": the early return
EmptyInputNever(df) == FALSE
EmptyInput(df) == Len(df.rows) = 0

Then(st, Op(_)) == IF st.err # "" THEN st ELSE Op(st)

\* clean_data(df): [df, metrics, err]; err # "" means the call raised
clean_data(df) ==
    LET st0 == [df |-> df, metrics |-> InitMetrics(df), err |-> ""]
    IN  IF EmptyInput(df) THEN st0
        ELSE Then(Then(Then(Then(Then(Then(Then(Then(StandardizeColumns(st0),
                 VerifyRequired), HandleMissing), ConvertTypes),
                 RemoveTestTransactions), ValidateQuantity), ValidatePrice),
                 DeriveTotal), FinalMetrics)

---------------------------------------------------------------------------
(* The store (database.py).  A table view is [customers, products,         *)
(* transactions]; a DATETIME value is a "ts" cell on a whole second, NULL  *)
(* is NA.                                                                  *)

\* .dt.strftime('%Y-%m-%d %H:%M:%S') read back by a DATETIME column
StrfTimeExact(c) == c
StrfTime(c) == IF c.k = "ts" THEN Ts(c.n - (c.n % TicksPerSecond)) ELSE NA

MaxOf(S) == CHOOSE x \in S : \A y \in S : y <= x
MinOf(S) == CHOOSE x \in S : \A y \in S : x <= y

\* get_max_invoice_date: SELECT MAX(invoice_date); None (NA) when the table
\* is empty, and when the query fails because the table is not there yet
get_max_invoice_date(exist, txs) ==
    LET dates == {txs[i].invoice_date.n : i \in {j \in 1..Len(txs) : txs[j].invoice_date.k = "ts"}}
    IN  IF ~exist \/ dates = {} THEN NA ELSE Ts(MaxOf(dates))

\* df.empty: an axis of length 0
df_empty_never(df) == FALSE
df_empty(df) == Len(df.rows) = 0 \/ Len(df.columns) = 0

required_load_columns ==
    {customer_id, invoice, stock_code, invoice_date, quantity, price, country, description}

\* required_columns - set(df.columns)
missing_load_columns_none(df) == {}
missing_load_columns(df) == required_load_columns \ Range(df.columns)

\* df[pd.to_datetime(df['invoice_date']) > max_date], one value
AfterWatermarkOrEqual(c, max_date) == c.k = "ts" /\ c.n >= max_date.n
AfterWatermark(c, max_date) == c.k = "ts" /\ c.n > max_date.n

\* "Handle incremental loading"
IncrementalFilterOff(df, full_refresh, max_date) == df
IncrementalFilter(df, full_refresh, max_date) ==
    IF ~full_refresh /\ ~isna(max_date)
    THEN Filter(df, [r \in 1..Len(df.rows) |->
                        AfterWatermark(to_datetime(Cell(df, r, invoice_date)), max_date)])
    ELSE df

RECURSIVE SumSeq(_)
SumSeq(q) == IF q = <<>> THEN 0 ELSE Head(q) + SumSeq(Tail(q))

\* the rows of the group of one key, in order
GroupRows(df, col, key) ==
    SelectSeq2(df.rows, [r \in 1..Len(df.rows) |-> Cell(df, r, col) = key])

\* the keys of df.groupby(col): missing keys form no group
GroupKeys(df, col) == {Cell(df, r, col) : r \in 1..Len(df.rows)} \ {NA}

\* agg 'first': the first value of the group that is not missing
First(df, rows, col) ==
    LET present == {i \in 1..Len(rows) : ~isna(Val(df, rows[i], col))}
    IN  IF present = {} THEN NA ELSE Val(df, rows[MinOf(present)], col)

Dates(df, rows) ==
    {Val(df, rows[i], invoice_date).n :
        i \in {j \in 1..Len(rows) : Val(df, rows[j], invoice_date).k = "ts"}}

\* one row of the customers frame: groupby('customer_id').agg(...)
CustomerAgg(df, key) ==
    LET rows == GroupRows(df, customer_id, key)
        ds   == Dates(df, rows)
    IN  [country             |-> First(df, rows, country),
         first_purchase_date |-> StrfTime(IF ds = {} THEN NA ELSE Ts(MinOf(ds))),
         last_purchase_date  |-> StrfTime(IF ds = {} THEN NA ELSE Ts(MaxOf(ds))),
         total_spent         |-> SumSeq([i \in 1..Len(rows) |->
                                     IF Val(df, rows[i], total_amount).k = "num"
                                     THEN Val(df, rows[i], total_amount).n ELSE 0]),
         total_transactions  |-> Cardinality(
                                     {Val(df, rows[i], invoice) : i \in 1..Len(rows)} \ {NA})]

RECURSIVE FirstUpperRun(_)
FirstUpperRun(s) ==
    IF s = <<>> THEN <<>>
    ELSE IF IsUpper(Head(s)) THEN <<Head(s)>> \o FirstUpperRun(Tail(s))
    ELSE <<>>

RECURSIVE SkipToUpper(_)
SkipToUpper(s) == IF s = <<>> \/ IsUpper(Head(s)) THEN s ELSE SkipToUpper(Tail(s))

OTHER_CATEGORY == <<"O","T","H","E","R">>

\* .str.extract(r'([A-Z]+)')[0].fillna('OTHER')
Category(d) ==
    IF d.k # "str" \/ SkipToUpper(d.s) = <<>> THEN Str(OTHER_CATEGORY)
    ELSE Str(FirstUpperRun(SkipToUpper(d.s)))

\* one row of the products frame
ProductAgg(df, key) ==
    LET d == First(df, GroupRows(df, stock_code, key), description)
    IN  [description |-> d, category |-> Category(d)]

\* one row of the transactions frame
TransactionOf(df, row) ==
    [invoice      |-> Val(df, row, invoice),
     invoice_date |-> StrfTime(Val(df, row, invoice_date)),
     customer_id  |-> Val(df, row, customer_id),
     stock_code   |-> Val(df, row, stock_code),
     quantity     |-> Val(df, row, quantity),
     price        |-> Val(df, row, price),
     total_amount |-> Val(df, row, total_amount),
     country      |-> Val(df, row, country)]

\* INSERT INTO customers ... ON DUPLICATE KEY UPDATE, one row
UpsertCustomerOverwrite(old, new) == new
UpsertCustomer(old, new) ==
    [old EXCEPT !.country = new.country,
                !.last_purchase_date = new.last_purchase_date,
                !.total_spent = @ + new.total_spent,
                !.total_transactions = @ + new.total_transactions]

\* the customers table after the first executemany
WriteCustomers(table, df) ==
    LET keys == {k.s : k \in GroupKeys(df, customer_id)}
    IN  [c \in DOMAIN table \cup keys |->
            IF c \notin keys THEN table[c]
            ELSE IF c \in DOMAIN table THEN UpsertCustomer(table[c], CustomerAgg(df, Str(c)))
            ELSE CustomerAgg(df, Str(c))]

\* the products table after the second executemany
WriteProducts(table, df) ==
    LET keys == {k.s : k \in GroupKeys(df, stock_code)}
    IN  [c \in DOMAIN table \cup keys |->
            IF c \in keys THEN ProductAgg(df, Str(c)) ELSE table[c]]

\* the transactions table after the third executemany
WriteTransactionsDistinct(table, df) ==
    LET new == [r \in 1..Len(df.rows) |-> TransactionOf(df, df.rows[r])]
    IN  table \o SelectSeq2(new, [i \in 1..Len(new) |->
                                    \A j \in 1..Len(table) : table[j] # new[i]])
WriteTransactions(table, df) ==
    table \o [r \in 1..Len(df.rows) |-> TransactionOf(df, df.rows[r])]

\* conn.close() without a commit: the server rolls the transaction back
AfterCloseKeepsWrites(committed, view) == view
AfterClose(committed, view) == committed

---------------------------------------------------------------------------
(* The batches handed to clean_data: a sheet with the columns of the UCI   *)
(* file, or the same columns spelled differently, or one column short.     *)
(* A row is <<InvoiceNo, StockCode, Description, Quantity, InvoiceDate,    *)
(* UnitPrice, CustomerID, Country>>.                                       *)
UCIColumns ==
    << <<"I","n","v","o","i","c","e","N","o">>,
       <<"S","t","o","c","k","C","o","d","e">>,
       <<"D","e","s","c","r","i","p","t","i","o","n">>,
       <<"Q","u","a","n","t","i","t","y">>,
       <<"I","n","v","o","i","c","e","D","a","t","e">>,
       <<"U","n","i","t","P","r","i","c","e">>,
       <<"C","u","s","t","o","m","e","r","I","D">>,
       <<"C","o","u","n","t","r","y">> >>

SpacedColumns ==
    << <<"I","N","V","O","I","C","E"," ","N","O">>,
       <<"S","t","o","c","k"," ","C","o","d","e">>,
       <<"D","e","s","c","r","i","p","t","i","o","n">>,
       <<"Q","u","a","n","t","i","t","y">>,
       <<"I","n","v","o","i","c","e"," ","D","a","t","e">>,
       <<"U","n","i","t"," ","P","r","i","c","e">>,
       <<"C","u","s","t","o","m","e","r"," ","I","D">>,
       <<"C","o","u","n","t","r","y">> >>

iInvoice == 1
iStock == 2
iDescription == 3
iQuantity == 4
iDate == 5
iPrice == 6
iCustomer == 7
iCountry == 8

Without(seq, j) == [i \in 1..(Len(seq) - 1) |-> IF i < j THEN seq[i] ELSE seq[i + 1]]

\* the frame without its j-th column
DropColumn(df, j) ==
    [columns |-> Without(df.columns, j),
     rows |-> [r \in 1..Len(df.rows) |-> Without(df.rows[r], j)]]

BaseRow ==
    << Str(<<"5","3","6">>), Str(<<"8","5","A">>), Str(<<"H","E","A","R","T">>),
       Num(6), Ts(2), Num(255), Str(<<"1","7">>), Str(<<"U","K">>) >>

With(row, j, c) == [row EXCEPT ![j] = c]

CancelRow == With(BaseRow, iInvoice, Str(<<"C","5","3","6">>))
BadText == <<"x">>

\* rows with one field, or two, that is not what the cleaner expects
DirtyRows ==
    { BaseRow,
      CancelRow,
      With(BaseRow, iInvoice, Str(<<"A","1","2">>)),
      With(BaseRow, iInvoice, NA),
      With(BaseRow, iQuantity, Num(0)),
      With(BaseRow, iQuantity, NA),
      With(BaseRow, iQuantity, Str(<<"6">>)),
      With(BaseRow, iPrice, Num(0)),
      With(BaseRow, iPrice, NA),
      With(BaseRow, iDate, NA),
      With(BaseRow, iDate, Str(<<"3">>)),
      With(BaseRow, iDate, Str(BadText)),
      With(BaseRow, iCustomer, NA),
      With(BaseRow, iCustomer, Num(17)),
      With(BaseRow, iDescription, NA),
      With(CancelRow, iQuantity, Str(<<"6">>)),
      With(CancelRow, iDate, NA),
      With(With(BaseRow, iQuantity, Num(-1)), iPrice, Num(0)),
      With(With(BaseRow, iQuantity, Num(0)), iPrice, Str(BadText)) }

\* the UCI columns under other spellings the mapping knows
SynonymColumns ==
    << <<"I","n","v","o","i","c","e","_","N","o">>,
       <<"S","T","O","C","K",".","C","O","D","E">>,
       <<"d","e","s","c","r","i","p","t","i","o","n">>,
       <<"Q","U","A","N","T","I","T","Y">>,
       <<"i","n","v","o","i","c","e","-","d","a","t","e">>,
       <<"U","n","i","t","_","_","P","r","i","c","e">>,
       <<"C","u","s","t","o","m","e","r">>,
       <<" ","C","o","u","n","t","r","y"," ">> >>

\* labels the mapping does not know
OddLabels ==
    { <<"F","o","o"," ","B","a","r">>,
      <<"_","X","_">>,
      <<"a","-","-","b","2">>,
      <<"Q","t","y",".">>,
      <<"%">> }

\* one good row under these spellings, with or without one more column
LabelFrames ==
    {[columns |-> c \o <<l>>, rows |-> <<BaseRow \o <<Str(BadText)>> >>] :
        c \in {UCIColumns, SynonymColumns}, l \in OddLabels}
    \cup {[columns |-> SynonymColumns, rows |-> <<BaseRow>>]}

SeqsUpTo(S, n) == UNION {[1..m -> S] : m \in 0..n}

DirtyFrames ==
    LET full == {[columns |-> c, rows |-> rs] :
                    c \in {UCIColumns, SpacedColumns}, rs \in SeqsUpTo(DirtyRows, MaxRows)}
        uci  == {f \in full : f.columns = UCIColumns}
    IN  full \cup {DropColumn(f, j) : f \in uci, j \in {iQuantity, iCustomer, iDescription}}
             \cup {EmptyFrame}
             \cup LabelFrames

---------------------------------------------------------------------------
(* One call of clean_data, statement by statement.                         *)
NoArgs == [full_refresh |-> FALSE, start_date |-> NA, end_date |-> NA,
           dry_run |-> FALSE, only_clean |-> FALSE]
NoConn == [open |-> FALSE, customers |-> EmptyDict, products |-> EmptyDict,
           transactions |-> <<>>]

StoreIdle ==
    /\ tables_exist = FALSE /\ customers = EmptyDict /\ products = EmptyDict
    /\ transactions = <<>>
LoadIdle ==
    /\ conn = NoConn /\ lpc = "idle" /\ ldf = EmptyFrame /\ lfull = FALSE /\ lcommits = 0
    /\ lerr = ""
RunIdleLocals ==
    /\ op = "none" /\ args = NoArgs /\ raw = EmptyFrame /\ clean_df = EmptyFrame
    /\ run_result = "none"
RunIdle == RunIdleLocals /\ metrics_file = <<>> /\ runs = 0

\* a file is [exists, size]
NoFile == [exists |-> FALSE, size |-> 0]
FileOf(n) == [exists |-> TRUE, size |-> n]

\* what download_with_retry has returned: nothing yet, a size, None, or it raised
Pending == [k |-> "pending", n |-> 0]
Size(n) == [k |-> "size", n |-> n]
None == [k |-> "None", n |-> 0]
Raised == [k |-> "raised", n |-> 0]

DownIdle ==
    /\ dcall = "none" /\ dpc = "idle" /\ nurls = 0 /\ durl = 0
    /\ max_retries = 0 /\ attempt = 0
    /\ dret = Pending /\ dlog = <<>> /\ dresult = "none"
DownUnused == DownIdle /\ dfile = NoFile

CleanInit ==
    /\ StoreIdle /\ LoadIdle /\ RunIdle /\ DownUnused
    /\ cin \in DirtyFrames
    /\ cdf = cin
    /\ cmetrics = InitMetrics(cin)
    /\ cerr = ""
    /\ cpc = "start"

CleanLocals == [df |-> cdf, metrics |-> cmetrics, err |-> ""]

\* the locals after a statement, and where the call goes next
CleanGoes(st, to) ==
    /\ cdf' = st.df
    /\ cmetrics' = st.metrics
    /\ cerr' = st.err
    /\ cpc' = IF st.err # "" THEN "raised" ELSE to
    /\ UNCHANGED <<cin, storeVars, loadVars, runVars, downVars>>

\* "Return early if empty DataFrame"
CleanEmpty ==
    /\ cpc = "start" /\ EmptyInput(cdf)
    /\ cpc' = "returned"
    /\ UNCHANGED <<cin, cdf, cmetrics, cerr, storeVars, loadVars, runVars, downVars>>

CleanStandardize ==
    /\ cpc = "start" /\ ~EmptyInput(cdf)
    /\ CleanGoes(StandardizeColumns(CleanLocals), "required")

CleanVerify ==
    /\ cpc = "required"
    /\ CleanGoes(VerifyRequired(CleanLocals), "missing")

CleanMissing ==
    /\ cpc = "missing"
    /\ CleanGoes(HandleMissing(CleanLocals), "types")

CleanTypes ==
    /\ cpc = "types"
    /\ CleanGoes(ConvertTypes(CleanLocals), "test")

CleanTest ==
    /\ cpc = "test"
    /\ CleanGoes(RemoveTestTransactions(CleanLocals), "quantity")

CleanQuantity ==
    /\ cpc = "quantity"
    /\ CleanGoes(ValidateQuantity(CleanLocals), "price")

CleanPrice ==
    /\ cpc = "price"
    /\ CleanGoes(ValidatePrice(CleanLocals), "derive")

CleanDerive ==
    /\ cpc = "derive"
    /\ CleanGoes(DeriveTotal(CleanLocals), "final")

CleanReturn ==
    /\ cpc = "final"
    /\ CleanGoes(FinalMetrics(CleanLocals), "returned")

CleanNext ==
    \/ CleanEmpty \/ CleanStandardize \/ CleanVerify \/ CleanMissing \/ CleanTypes
    \/ CleanTest \/ CleanQuantity \/ CleanPrice \/ CleanDerive \/ CleanReturn

SpecClean == CleanInit /\ [][CleanNext]_vars

\* the statements, run one by one, compute clean_data
CleanStepsAgree ==
    cpc \in {"returned", "raised"} =>
        [df |-> cdf, metrics |-> cmetrics, err |-> cerr] = clean_data(cin)

---------------------------------------------------------------------------
(* The pipeline (main.py) and the loader, one run after another.           *)

InvoiceDate == UCIColumns[iDate]

\* get_incremental_date_range: [some, lo, hi]; some = FALSE is None
NoRange == [some |-> FALSE, lo |-> NA, hi |-> NA]
get_incremental_date_range(max_date, a) ==
    IF a.full_refresh THEN NoRange
    ELSE IF ~isna(a.start_date) THEN [some |-> TRUE, lo |-> a.start_date, hi |-> a.end_date]
    ELSE IF ~isna(max_date) THEN [some |-> TRUE, lo |-> max_date, hi |-> a.end_date]
    ELSE NoRange

\* df[(df['InvoiceDate'] >= date_range[0]) & (df['InvoiceDate'] <= date_range[1])]
InWindow(c, dr) == c.k = "ts" /\ dr.lo.n <= c.n /\ c.n <= dr.hi.n
DateWindow(df, dr) ==
    Filter(df, [r \in 1..Len(df.rows) |-> InWindow(Cell(df, r, InvoiceDate), dr)])

\* the comparison raises: no such column, or text in it
WindowRaises(df) ==
    \/ ~HasCol(df, InvoiceDate)
    \/ \E r \in 1..Len(df.rows) : Cell(df, r, InvoiceDate).k \notin {"ts", "na"}

\* load(clean_df) calls load_data(conn, clean_df): full_refresh keeps its default
load_full_refresh_passed(a) == a.full_refresh
load_full_refresh(a) == FALSE

\* the sheets a run extracts: well-formed rows, some of them cancellations
\* or without a customer, dated on any tick
PipeRow(d, v) ==
    LET r0 == With(With(With(BaseRow, iDate, Ts(d)), iQuantity, Num(2)), iPrice, Num(500))
    IN  CASE v = 1 -> r0
          [] v = 2 -> With(With(r0, iInvoice, Str(<<"5","3","7">>)), iCountry, Str(<<"F","R">>))
          [] v = 3 -> With(r0, iInvoice, Str(<<"C","5","3","6">>))
          [] OTHER -> With(r0, iCustomer, NA)

FirstTick == TicksPerSecond
NowTick == MaxTick + 1
PipeRows == {PipeRow(d, v) : d \in FirstTick..MaxTick, v \in {1, 2, 3, 4}}
PipeFrames == {[columns |-> UCIColumns, rows |-> rs] : rs \in SeqsUpTo(PipeRows, MaxRows)}

\* transform(df) for each of them, computed once
Transformed_ == [f \in PipeFrames |-> clean_data(f)]
transform(df) == Transformed_[df]

\* the canonical batches the cleaner makes of them
LoadFrames == {Transformed_[f].df : f \in PipeFrames}


WholeSeconds == {Ts(t) : t \in {u \in FirstTick..MaxTick : u % TicksPerSecond = 0}}
\* the command lines: any dates with a load, the default dates without
ArgSet ==
    {[full_refresh |-> fr, start_date |-> sd, end_date |-> ed,
      dry_run |-> FALSE, only_clean |-> FALSE] :
        fr \in BOOLEAN, sd \in {NA} \cup WholeSeconds,
        ed \in {Ts(NowTick)} \cup WholeSeconds}
    \cup
    {[full_refresh |-> fr, start_date |-> NA, end_date |-> Ts(NowTick),
      dry_run |-> m = "dry", only_clean |-> m = "clean"] :
        fr \in BOOLEAN, m \in {"dry", "clean"}}

CleanUnused ==
    /\ cpc = "idle" /\ cin = EmptyFrame /\ cdf = EmptyFrame
    /\ cmetrics = InitMetrics(EmptyFrame) /\ cerr = ""

Init == StoreIdle /\ LoadIdle /\ RunIdle /\ CleanUnused /\ DownUnused

View(c, p, t) == [open |-> TRUE, customers |-> c, products |-> p, transactions |-> t]

CanStart == op = "none" /\ runs < MaxRuns

\* load(): get_connection()
EnterLoad(df, full) ==
    /\ conn' = View(customers, products, transactions)
    /\ lpc' = "create"
    /\ ldf' = df
    /\ lfull' = full
    /\ lcommits' = 0
    /\ lerr' = ""

NoLoad ==
    /\ conn' = NoConn /\ lpc' = "idle" /\ ldf' = EmptyFrame /\ lfull' = FALSE
    /\ lcommits' = 0 /\ lerr' = ""

\* run_pipeline(args) up to the call of load()
RunPipeline ==
    \E a \in ArgSet, df \in PipeFrames :
        /\ CanStart
        /\ op' = "pipeline" /\ args' = a /\ raw' = df /\ runs' = runs + 1
        /\ LET dr  == get_incremental_date_range(
                          get_max_invoice_date(tables_exist, transactions), a)
               fdf == IF dr.some THEN DateWindow(df, dr) ELSE df
               st  == transform(fdf)
           IN  IF dr.some /\ WindowRaises(df)
               THEN /\ run_result' = "False" /\ clean_df' = EmptyFrame
                    /\ UNCHANGED metrics_file /\ NoLoad
               ELSE IF dr.some /\ Len(fdf.rows) = 0
               THEN \* "No records found in specified date range": return True
                    /\ run_result' = "True" /\ clean_df' = EmptyFrame
                    /\ UNCHANGED metrics_file /\ NoLoad
               ELSE IF st.err # ""
               THEN /\ run_result' = "False" /\ clean_df' = EmptyFrame
                    /\ UNCHANGED metrics_file /\ NoLoad
               ELSE /\ clean_df' = st.df
                    /\ metrics_file' = <<st.metrics>>
                    /\ IF ~a.dry_run /\ ~a.only_clean
                       THEN run_result' = "running" /\ EnterLoad(st.df, load_full_refresh(a))
                       ELSE run_result' = "True" /\ NoLoad
        /\ UNCHANGED <<storeVars, cleanVars, downVars>>

\* load_data(conn, df, full_refresh) called on its own, after create_tables
CallLoadData ==
    \E df \in LoadFrames, full \in BOOLEAN :
        /\ CanStart
        /\ op' = "load_data" /\ args' = NoArgs /\ raw' = EmptyFrame /\ runs' = runs + 1
        /\ clean_df' = df
        /\ run_result' = "running"
        /\ EnterLoad(df, full)
        /\ UNCHANGED <<metrics_file, storeVars, cleanVars, downVars>>

\* create_tables(conn): CREATE TABLE IF NOT EXISTS, committed
LoadCreateTables ==
    /\ lpc = "create"
    /\ tables_exist' = TRUE
    /\ lpc' = "begin"
    /\ UNCHANGED <<customers, products, transactions, conn, ldf, lfull, lcommits, lerr,
                   runVars, cleanVars, downVars>>

Finished(result, err) ==
    /\ lpc' = "idle"
    /\ lerr' = err
    /\ run_result' = result
    /\ UNCHANGED <<op, args, raw, clean_df, metrics_file, runs>>

\* load_data up to the cursor: the empty return, the column check, the
\* watermark filter and the three frames
LoadBegin ==
    /\ lpc = "begin"
    /\ IF df_empty(ldf)
       THEN /\ lcommits' = lcommits + 1
            /\ conn' = [conn EXCEPT !.open = FALSE]
            /\ Finished("True", "")
            /\ UNCHANGED <<ldf, lfull, storeVars>>
       ELSE IF missing_load_columns(ldf) # {}
       THEN /\ conn' = [conn EXCEPT !.open = FALSE]
            /\ Finished("False", "ValueError")
            /\ UNCHANGED <<ldf, lfull, lcommits, storeVars>>
       ELSE IF ~HasCol(ldf, total_amount)
       THEN /\ conn' = [conn EXCEPT !.open = FALSE]
            /\ Finished("False", "KeyError")
            /\ UNCHANGED <<ldf, lfull, lcommits, storeVars>>
       ELSE /\ ldf' = IncrementalFilter(ldf, lfull,
                          get_max_invoice_date(tables_exist, conn.transactions))
            /\ lpc' = "customers"
            /\ UNCHANGED <<conn, lfull, lcommits, lerr, storeVars, runVars>>
    /\ UNCHANGED <<cleanVars, downVars>>

\* cursor.executemany: customers
LoadCustomers ==
    /\ lpc = "customers"
    /\ conn' = [conn EXCEPT !.customers = WriteCustomers(@, ldf)]
    /\ lpc' = "products"
    /\ UNCHANGED <<ldf, lfull, lcommits, lerr, storeVars, runVars, cleanVars, downVars>>

\* cursor.executemany: products
LoadProducts ==
    /\ lpc = "products"
    /\ conn' = [conn EXCEPT !.products = WriteProducts(@, ldf)]
    /\ lpc' = "transactions"
    /\ UNCHANGED <<ldf, lfull, lcommits, lerr, storeVars, runVars, cleanVars, downVars>>

\* cursor.executemany: transactions
LoadTransactions ==
    /\ lpc = "transactions"
    /\ conn' = [conn EXCEPT !.transactions = WriteTransactions(@, ldf)]
    /\ lpc' = "commit"
    /\ UNCHANGED <<ldf, lfull, lcommits, lerr, storeVars, runVars, cleanVars, downVars>>

\* conn.commit(), then the return and conn.close()
LoadCommit ==
    /\ lpc = "commit"
    /\ customers' = conn.customers
    /\ products' = conn.products
    /\ transactions' = conn.transactions
    /\ lcommits' = lcommits + 1
    /\ conn' = [conn EXCEPT !.open = FALSE]
    /\ Finished("True", "")
    /\ UNCHANGED <<tables_exist, ldf, lfull, cleanVars, downVars>>

\* a statement or the commit raises mysql.connector.Error: the exception
\* leaves load_data and "finally: conn.close()" ends the connection.  The
\* closed connection keeps what it had written, to show what was lost.
LoadFails ==
    /\ lpc \in {"customers", "products", "transactions", "commit"}
    /\ LET after == AfterClose(View(customers, products, transactions), conn)
       IN  /\ customers' = after.customers
           /\ products' = after.products
           /\ transactions' = after.transactions
    /\ conn' = [conn EXCEPT !.open = FALSE]
    /\ Finished("False", "Error")
    /\ UNCHANGED <<tables_exist, ldf, lfull, lcommits, cleanVars, downVars>>

\* the call has returned (the process has exited): its locals are gone, the
\* store and the metrics file stay
Return ==
    /\ op # "none" /\ run_result \in {"True", "False"}
    /\ op' = "none" /\ args' = NoArgs /\ raw' = EmptyFrame /\ clean_df' = EmptyFrame
    /\ run_result' = "none"
    /\ NoLoad
    /\ UNCHANGED <<metrics_file, runs, storeVars, cleanVars, downVars>>

Next ==
    \/ RunPipeline \/ CallLoadData \/ Return
    \/ LoadCreateTables \/ LoadBegin
    \/ LoadCustomers \/ LoadProducts \/ LoadTransactions
    \/ LoadCommit \/ LoadFails

Spec == Init /\ [][Next]_vars

---------------------------------------------------------------------------
(* The loader alone: load_data called again and again on one store, with   *)
(* full_refresh or without, on batches dated over two whole seconds, on    *)
(* batches without rows and on batches one column short.                   *)

\* the second whole second of the data
LastLoadTick == FirstTick + TicksPerSecond

\* canonical batches: what clean_data makes of well-formed sheets
WideRows == {PipeRow(d, v) : d \in FirstTick..LastLoadTick, v \in {1, 2, 4}}
WideFrames ==
    {clean_data([columns |-> UCIColumns, rows |-> rs]).df : rs \in SeqsUpTo(WideRows, MaxRows)}

\* a one-row canonical batch with one of its columns taken away
ShortFrames ==
    LET f == clean_data([columns |-> UCIColumns, rows |-> <<PipeRow(FirstTick, 1)>>]).df
    IN  {DropColumn(f, j) : j \in 1..Len(f.columns)}

\* batches without rows: with the canonical columns, and without columns
NoRowFrames ==
    {[columns |-> clean_data([columns |-> UCIColumns,
                              rows |-> <<PipeRow(FirstTick, 1)>>]).df.columns,
      rows |-> <<>>],
     EmptyFrame}

AnyLoadFrames == WideFrames \cup ShortFrames \cup NoRowFrames

\* load_data(conn, df, full_refresh) called on its own, after create_tables
CallLoadDataAny ==
    \E df \in AnyLoadFrames, full \in BOOLEAN :
        /\ CanStart
        /\ op' = "load_data" /\ args' = NoArgs /\ raw' = EmptyFrame /\ runs' = runs + 1
        /\ clean_df' = df
        /\ run_result' = "running"
        /\ EnterLoad(df, full)
        /\ UNCHANGED <<metrics_file, storeVars, cleanVars, downVars>>

NextLoad ==
    \/ CallLoadDataAny \/ Return
    \/ LoadCreateTables \/ LoadBegin
    \/ LoadCustomers \/ LoadProducts \/ LoadTransactions
    \/ LoadCommit \/ LoadFails

SpecLoad == Init /\ [][NextLoad]_vars

---------------------------------------------------------------------------
(* The downloader (01_scripts/downloader.py): download_dataset tries each  *)
(* URL of DATASET_URLS with download_with_retry and checks the size of     *)
(* what it saved.  A response is what one                                  *)
(* requests.get brings: an error, a body that breaks off, or a whole body  *)
(* under a Content-Length header.                                          *)

MaxRetries == 4       \* largest max_retries handed to download_with_retry
MaxBytes == 2         \* largest body and largest Content-Length
MaxUrls == 2          \* largest number of URLs in DATASET_URLS

\* def download_with_retry(url, file_path, max_retries=3)
DefaultMaxRetries == 3
\* wait_time = (attempt + 1) * 5
BackoffSeconds == 5

\* the file left in DATA_DIR by an earlier run, if any
OldFiles == {NoFile} \cup {FileOf(n) : n \in 1..MaxBytes}

NoHeader == [k |-> "absent", n |-> 0]
Headers ==
    {NoHeader, [k |-> "bad", n |-> 0]} \cup {[k |-> "int", n |-> n] : n \in 0..MaxBytes}

\* "error": requests.get or raise_for_status raises a RequestException;
\* "cut": iter_content raises one after body bytes; "ok": the body is whole
Responses ==
    {[k |-> "error", header |-> NoHeader, body |-> 0]}
    \cup {[k |-> "cut", header |-> h, body |-> b] :
              h \in {x \in Headers : x.k # "bad"}, b \in 0..MaxBytes}
    \cup {[k |-> "ok", header |-> h, body |-> b] : h \in Headers, b \in 0..MaxBytes}

\* int(response.headers.get('Content-Length', 0)), for a header that is an integer
expected_size_of(h) == IF h.k = "int" THEN h.n ELSE 0

\* verify_file_integrity(file_path, expected_size)
verify_file_integrity(file, expected_size) ==
    IF ~file.exists THEN FALSE
    ELSE IF expected_size.k # "None" /\ expected_size.n > 0 /\ file.size # expected_size.n
    THEN FALSE
    ELSE IF file.size = 0 /\ (expected_size.k = "None" \/ expected_size.n # 0)
    THEN FALSE
    ELSE TRUE

\* if attempt < max_retries - 1
ShouldWaitAlways(a, m) == TRUE
ShouldWait(a, m) == a < m - 1

\* wait_time = (attempt + 1) * 5
wait_time(a) == (a + 1) * BackoffSeconds

\* what the network and the clock saw of one download_with_retry call
Failed == [e |-> "fail", n |-> 0, body |-> 0]
Received(r) == [e |-> "ok", n |-> expected_size_of(r.header), body |-> r.body]
Slept(s) == [e |-> "sleep", n |-> s, body |-> 0]

Logged(ev) == [dlog EXCEPT ![Len(dlog)] = Append(@, ev)]

DownInit ==
    /\ StoreIdle /\ LoadIdle /\ RunIdle /\ CleanUnused
    /\ DownIdle
    /\ dfile \in OldFiles

\* download_dataset(): DATA_DIR.mkdir, file_path, and the loop is entered
CallDownloadDataset ==
    \E n \in 1..MaxUrls :
        /\ dcall = "none"
        /\ dcall' = "download_dataset"
        /\ nurls' = n
        /\ durl' = 1
        /\ dpc' = "next_url"
        /\ UNCHANGED <<max_retries, attempt, dfile, dret, dlog, dresult,
                       storeVars, loadVars, runVars, cleanVars>>

\* "for attempt in range(max_retries)" is entered, or is over at once
EnterRetry(m) ==
    /\ max_retries' = m
    /\ attempt' = 0
    /\ dlog' = Append(dlog, <<>>)
    /\ dret' = IF m > 0 THEN Pending ELSE None

\* download_with_retry(url, file_path, max_retries) called on its own
CallDownloadWithRetry ==
    \E m \in 0..MaxRetries :
        /\ dcall = "none"
        /\ dcall' = "download_with_retry"
        /\ nurls' = 1
        /\ durl' = 1
        /\ EnterRetry(m)
        /\ dpc' = IF m > 0 THEN "request" ELSE "done"
        /\ UNCHANGED <<dfile, dresult, storeVars, loadVars, runVars, cleanVars>>

\* "for url in DATASET_URLS": the next URL is tried with the default
\* max_retries, or "raise Exception('All download attempts failed')"
DownloadNextUrl ==
    /\ dpc = "next_url"
    /\ IF durl > nurls
       THEN /\ dresult' = "Exception"
            /\ dpc' = "done"
            /\ UNCHANGED <<max_retries, attempt, dlog, dret>>
       ELSE /\ EnterRetry(DefaultMaxRetries)
            /\ dpc' = "request"
            /\ UNCHANGED dresult
    /\ UNCHANGED <<dcall, nurls, durl, dfile, storeVars, loadVars, runVars, cleanVars>>

\* download_with_retry returns its value: to the caller of a direct call,
\* or to download_dataset, which verifies a size and goes on after None
RetryReturns(value) ==
    /\ dret' = value
    /\ IF dcall = "download_with_retry"
       THEN dpc' = "done" /\ UNCHANGED durl
       ELSE IF value.k = "None"
       THEN dpc' = "next_url" /\ durl' = durl + 1
       ELSE dpc' = "verify" /\ UNCHANGED durl
    /\ UNCHANGED dresult

\* one pass of the try block: the request, the header, the file, the body,
\* and the except clause up to time.sleep
DownloadAttempt ==
    \E r \in Responses :
        /\ dpc = "request"
        /\ IF r.k \in {"error", "cut"}
           THEN /\ dfile' = IF r.k = "cut" THEN FileOf(r.body) ELSE dfile
                /\ dlog' = Logged(Failed)
                /\ IF ShouldWait(attempt, max_retries)
                   THEN /\ dpc' = "sleep"
                        /\ UNCHANGED <<attempt, dret, durl, dresult>>
                   ELSE IF attempt + 1 < max_retries
                   THEN /\ dpc' = "request"
                        /\ attempt' = attempt + 1
                        /\ UNCHANGED <<dret, durl, dresult>>
                   ELSE /\ attempt' = attempt
                        /\ RetryReturns(None)
           ELSE IF r.header.k = "bad"
           THEN \* int() raises ValueError, which nothing catches
                /\ dret' = Raised
                /\ dresult' = IF dcall = "download_dataset" THEN "ValueError" ELSE dresult
                /\ dpc' = "done"
                /\ UNCHANGED <<dfile, dlog, attempt, durl>>
           ELSE /\ dfile' = FileOf(r.body)
                /\ dlog' = Logged(Received(r))
                /\ RetryReturns(Size(expected_size_of(r.header)))
                /\ UNCHANGED attempt
        /\ UNCHANGED <<dcall, nurls, max_retries, storeVars, loadVars, runVars, cleanVars>>

\* time.sleep(wait_time) returns and the loop goes on
DownloadSleep ==
    /\ dpc = "sleep"
    /\ dlog' = Logged(Slept(wait_time(attempt)))
    /\ IF attempt + 1 < max_retries
       THEN /\ attempt' = attempt + 1
            /\ dpc' = "request"
            /\ UNCHANGED <<dret, durl, dresult>>
       ELSE /\ attempt' = attempt
            /\ RetryReturns(None)
    /\ UNCHANGED <<dcall, nurls, max_retries, dfile, storeVars, loadVars, runVars, cleanVars>>

\* "if verify_file_integrity(file_path, expected_size)": return file_path,
\* else unlink the file and try the next source
DownloadVerify ==
    /\ dpc = "verify"
    /\ IF verify_file_integrity(dfile, dret)
       THEN /\ dresult' = "file_path"
            /\ dpc' = "done"
            /\ UNCHANGED <<dfile, durl>>
       ELSE /\ dfile' = NoFile
            /\ durl' = durl + 1
            /\ dpc' = "next_url"
            /\ UNCHANGED dresult
    /\ UNCHANGED <<dcall, nurls, max_retries, attempt, dret, dlog,
                   storeVars, loadVars, runVars, cleanVars>>

NextDownload ==
    \/ CallDownloadDataset \/ CallDownloadWithRetry
    \/ DownloadNextUrl \/ DownloadAttempt \/ DownloadSleep \/ DownloadVerify

SpecDownload == DownInit /\ [][NextDownload]_vars

---------------------------------------------------------------------------
(* Properties of clean_data, checked under SpecClean.                      *)

\* the argument of the call under its canonical column names, rows untouched
CanonIn == StandardizeColumns([df |-> cin, metrics |-> InitMetrics(cin), err |-> ""]).df

\* a cancellation / adjustment marker at the head of an invoice value
HasMarker(c) == c.k = "str" /\ c.s # <<>> /\ c.s[1] \in {"C", "A"}

\* C6: every row of the batch clean_data returns has quantity > 0, price > 0
\* and an invoice without a leading 'C' or 'A', whatever the input held
\* (numbers, strings, missing values).
C6_ReturnedRowsValid ==
    cpc = "returned" =>
        \A r \in 1..Len(cdf.rows) :
            /\ Cell(cdf, r, quantity).k = "num" /\ Cell(cdf, r, quantity).n > 0
            /\ Cell(cdf, r, price).k = "num" /\ Cell(cdf, r, price).n > 0
            /\ ~HasMarker(Cell(cdf, r, invoice))

\* C7: when clean_data returns, original_rows = cleaned_rows + the three
\* invalid_values counters (absent = 0), and each removed row is counted once,
\* under the first of: marker, quantity <= 0, price <= 0 that applies to it.
C7_RemovedRowsAccounted ==
    cpc = "returned" =>
        LET n     == Len(cin.rows)
            in    == CanonIn
            test  == {r \in 1..n : HasMarker(Cell(in, r, invoice))}
            qty   == {r \in (1..n) \ test :
                        Cell(in, r, quantity).k = "num" /\ Cell(in, r, quantity).n <= 0}
            prc   == {r \in (1..n) \ (test \cup qty) :
                        Cell(in, r, price).k = "num" /\ Cell(in, r, price).n <= 0}
            inv   == cmetrics.invalid_values
        IN  /\ cmetrics.original_rows = n
            /\ cmetrics.cleaned_rows = Len(cdf.rows)
            /\ cmetrics.original_rows =
                  cmetrics.cleaned_rows + DictGet(inv, "test_transactions")
                  + DictGet(inv, "quantity") + DictGet(inv, "price")
            /\ DictGet(inv, "test_transactions") = Cardinality(test)
            /\ DictGet(inv, "quantity") = Cardinality(qty)
            /\ DictGet(inv, "price") = Cardinality(prc)

\* a returned call in which one row had quantity <= 0 and price <= 0 and was
\* counted under quantity only, and another row was a cancellation
C7_Witness ==
    /\ cpc = "returned"
    /\ LET in == CanonIn
       IN  \E r \in 1..Len(cin.rows) :
              /\ Cell(in, r, quantity) = Num(-1)
              /\ Cell(in, r, price) = Num(0)
    /\ DictGet(cmetrics.invalid_values, "quantity") = 1
    /\ "price" \notin DOMAIN cmetrics.invalid_values
    /\ DictGet(cmetrics.invalid_values, "test_transactions") = 1
    /\ cmetrics.original_rows = 2 /\ cmetrics.cleaned_rows = 0

\* C8: in the returned report rejected_rows = original_rows - cleaned_rows and
\* rejection_rate = (original_rows - cleaned_rows) / original_rows (to four
\* places; 0.0 when original_rows = 0).
C8_RejectedRowsReported ==
    cpc = "returned" =>
        LET m == cmetrics
            rejected == m.original_rows - m.cleaned_rows
        IN  /\ m.rejected_rows = rejected
            /\ m.rejection_rate = IF m.original_rows = 0 THEN 0
                                  ELSE Round4(rejected, m.original_rows)

\* C9: a non-empty batch lacking a required column after canonicalization
\* makes clean_data raise KeyError at the check: nothing was filled, converted
\* or filtered by then, and the call never returns.
C9_SchemaErrorFirst ==
    (cpc \notin {"start", "required"} /\ Len(cin.rows) > 0 /\ missing_columns(CanonIn) # {}) =>
        /\ cpc = "raised" /\ cerr = "KeyError"
        /\ cdf.rows = cin.rows
        /\ cmetrics.missing_values = EmptyDict
        /\ cmetrics.invalid_values = EmptyDict
        /\ \A i \in 1..Len(cmetrics.transformations) :
              cmetrics.transformations[i] = "Renamed columns"

\* the call raised KeyError for a batch without quantity whose missing
\* customer_id is still missing and whose cancellation row is still there
C9_Witness ==
    /\ cpc = "raised" /\ cerr = "KeyError"
    /\ quantity \in missing_columns(cdf)
    /\ \E r \in 1..Len(cdf.rows) : isna(Cell(cdf, r, customer_id))
    /\ \E r \in 1..Len(cdf.rows) : HasMarker(Cell(cdf, r, invoice))

\* C10: clean_data never returns a row whose invoice_date is missing or is not
\* a timestamp.
C10_ReturnedDatesAreTimestamps ==
    cpc = "returned" =>
        \A r \in 1..Len(cdf.rows) : Cell(cdf, r, invoice_date).k = "ts"

---------------------------------------------------------------------------
(* Properties of the pipeline and the loader, checked under Spec.          *)

\* the step that commits a load
Commits == lpc = "commit" /\ lpc' = "idle" /\ lerr' = ""

\* the rows of a batch whose customer_id is the string c, among those kept
RowsOf(df, c, keep) ==
    SelectSeq2(df.rows, [r \in 1..Len(df.rows) |->
                            keep[r] /\ Cell(df, r, customer_id) = Str(c)])
Amounts(df, rows) == SumSeq([i \in 1..Len(rows) |-> Val(df, rows[i], total_amount).n])
Invoices(df, rows) == {Val(df, rows[i], invoice) : i \in 1..Len(rows)}
Spent(table, c) == IF c \in DOMAIN table THEN table[c].total_spent ELSE 0
Bought(table, c) == IF c \in DOMAIN table THEN table[c].total_transactions ELSE 0

\* C1: with no explicit start date and a watermark W in the store, a committed
\* load inserts exactly the rows of its batch dated strictly after W, and the
\* customer totals grow by those rows only.
C1_OnlyAfterWatermark ==
    [][ ( /\ Commits
          /\ \/ op = "pipeline" /\ isna(args.start_date)
             \/ op = "load_data" /\ ~lfull
          /\ ~isna(get_max_invoice_date(tables_exist, transactions)) )
        =>
        LET W    == get_max_invoice_date(tables_exist, transactions).n
            n    == Len(clean_df.rows)
            keep == [r \in 1..n |-> Cell(clean_df, r, invoice_date).n > W]
            late == SelectSeq2(clean_df.rows, keep)
        IN  /\ Len(transactions') = Len(transactions) + Len(late)
            /\ SubSeq(transactions', 1, Len(transactions)) = transactions
            /\ \A i \in 1..Len(late) :
                  LET t == transactions'[Len(transactions) + i]
                  IN  /\ t.invoice = Val(clean_df, late[i], invoice)
                      /\ t.customer_id = Val(clean_df, late[i], customer_id)
                      /\ Val(clean_df, late[i], invoice_date).n > W
            /\ \A c \in DOMAIN customers' :
                  /\ Spent(customers', c) - Spent(customers, c)
                        = Amounts(clean_df, RowsOf(clean_df, c, keep))
                  /\ Bought(customers', c) - Bought(customers, c)
                        = Cardinality(Invoices(clean_df, RowsOf(clean_df, c, keep)))
      ]_vars

\* a run without a start date has committed: the store held a row dated W, the
\* cleaned batch held a row dated W and a later one, only the later was loaded
C1_Witness ==
    /\ op = "pipeline" /\ run_result = "True" /\ lcommits = 1
    /\ isna(args.start_date) /\ ~args.full_refresh
    /\ Len(clean_df.rows) = 2
    /\ Cell(clean_df, 1, invoice_date) = Ts(FirstTick)
    /\ Cell(clean_df, 2, invoice_date) = Ts(FirstTick + 1)
    /\ Len(ldf.rows) = 1
    /\ Cell(ldf, 1, invoice_date) = Ts(FirstTick + 1)
    /\ Len(transactions) = 2
    /\ transactions[1].invoice_date = Ts(FirstTick)
    /\ transactions[2].invoice = Cell(ldf, 1, invoice)

\* C2: a full-refresh run filters by no date: the batch handed to the loader
\* is the whole cleaned sheet and every row of it is inserted, whatever the
\* watermark.
C2_FullRefreshLoadsAll ==
    (op = "pipeline" /\ args.full_refresh /\ lpc = "commit") =>
        /\ clean_df = clean_data(raw).df
        /\ Len(conn.transactions) = Len(transactions) + Len(clean_df.rows)

\* C3: with an explicit start date (no full refresh) the rows loaded are the
\* valid rows with start <= invoice_date <= end, whatever the watermark.
C3_ExplicitWindowLoaded ==
    (op = "pipeline" /\ ~args.full_refresh /\ ~isna(args.start_date) /\ lpc = "commit") =>
        LET valid == clean_data(raw).df
            inwin == {r \in 1..Len(valid.rows) :
                        /\ args.start_date.n <= Cell(valid, r, invoice_date).n
                        /\ Cell(valid, r, invoice_date).n <= args.end_date.n}
        IN  Len(conn.transactions) = Len(transactions) + Cardinality(inwin)

\* C4: a committed load that holds an existing customer replaces its country
\* and last_purchase_date by the batch's, adds the batch's sum of total_amount
\* to total_spent and its number of distinct invoices to total_transactions,
\* and leaves first_purchase_date; other customers are untouched.
C4_AdditiveMerge ==
    [][ Commits =>
        \A c \in DOMAIN customers :
            LET all  == [r \in 1..Len(ldf.rows) |-> TRUE]
                rows == RowsOf(ldf, c, all)
                last == MaxOf({Val(ldf, rows[i], invoice_date).n : i \in 1..Len(rows)})
            IN  IF rows = <<>> THEN customers'[c] = customers[c]
                ELSE /\ customers'[c].country = Val(ldf, rows[1], country)
                     /\ customers'[c].last_purchase_date = Ts(last - (last % TicksPerSecond))
                     /\ customers'[c].total_spent = customers[c].total_spent + Amounts(ldf, rows)
                     /\ customers'[c].total_transactions =
                           customers[c].total_transactions + Cardinality(Invoices(ldf, rows))
                     /\ customers'[c].first_purchase_date = customers[c].first_purchase_date
      ]_vars

\* the same row, worth 10.00, loaded twice with full_refresh: total_spent 20.00
C4_Witness ==
    /\ op = "load_data" /\ lfull /\ run_result = "True" /\ lcommits = 1
    /\ Len(ldf.rows) = 1
    /\ Cell(ldf, 1, total_amount) = Num(1000)
    /\ Len(transactions) = 2
    /\ transactions[1] = transactions[2]
    /\ customers[Cell(ldf, 1, customer_id).s].total_spent = 2000
    /\ customers[Cell(ldf, 1, customer_id).s].total_transactions = 2

\* C5: the committed tables change only at the commit of a load, all three to
\* what the connection had written; a load whose write or commit fails leaves
\* the committed tables as they were.
C5_AtomicCommit ==
    [][ /\ (<<customers, products, transactions>>' # <<customers, products, transactions>>)
            => /\ Commits
               /\ customers' = conn.customers
               /\ products' = conn.products
               /\ transactions' = conn.transactions
        /\ (lerr' = "Error" /\ lerr = "")
            => /\ UNCHANGED <<customers, products, transactions>>
               /\ ~conn'.open
      ]_vars

\* a load failed after it had written customers and transactions, on a store
\* that held an earlier load: the store still holds the earlier load only
C5_Witness ==
    /\ lerr = "Error" /\ run_result = "False"
    /\ Len(transactions) > 0
    /\ Len(conn.transactions) > Len(transactions)
    /\ conn.customers # customers

---------------------------------------------------------------------------
(* Properties of the loader alone, checked under SpecLoad.                 *)

\* the fields of a canonical record
CanonicalFields ==
    {invoice, stock_code, description, quantity, invoice_date, price, customer_id,
     country, total_amount}

\* the connection has written nothing that is not committed
NothingWritten(c) ==
    /\ c.customers = customers /\ c.products = products /\ c.transactions = transactions

\* C11: load_data on a batch with rows that lacks a field of the canonical
\* record raises before it writes to customers, products or transactions
\* and before it commits.
C11_MissingFieldRaisesFirst ==
    [][ (lpc = "begin" /\ Len(ldf.rows) > 0 /\ CanonicalFields \ Range(ldf.columns) # {})
        => /\ lerr' \in {"ValueError", "KeyError"}
           /\ run_result' = "False"
           /\ lpc' = "idle"
           /\ lcommits = 0 /\ lcommits' = 0
           /\ NothingWritten(conn')
           /\ UNCHANGED storeVars
      ]_vars

\* a batch of one row without total_amount was refused, on a store that held
\* an earlier load
C11_Witness ==
    /\ op = "load_data" /\ run_result = "False" /\ lerr = "KeyError"
    /\ Len(ldf.rows) = 1
    /\ CanonicalFields \ Range(ldf.columns) = {total_amount}
    /\ transactions # <<>>
    /\ NothingWritten(conn)

\* the invoice dates of the persisted transactions of customer c
PersistedDates(c) ==
    {transactions[i].invoice_date.n :
        i \in {j \in 1..Len(transactions) : /\ transactions[j].customer_id = Str(c)
                                            /\ transactions[j].invoice_date.k = "ts"}}

\* C12: after any committed loads, a persisted customer's first_purchase_date
\* is the earliest and its last_purchase_date the latest invoice_date of the
\* transactions persisted for it.
C12_PurchaseDatesAreMinMax ==
    \A c \in DOMAIN customers :
        PersistedDates(c) # {} =>
            /\ customers[c].first_purchase_date = Ts(MinOf(PersistedDates(c)))
            /\ customers[c].last_purchase_date = Ts(MaxOf(PersistedDates(c)))

\* the invoices of the persisted transactions of customer c
PersistedInvoices(c) ==
    {transactions[i].invoice :
        i \in {j \in 1..Len(transactions) : transactions[j].customer_id = Str(c)}}

\* C13: after any committed loads, a persisted customer's total_transactions
\* is the number of distinct invoices among its persisted transactions.
C13_TransactionsCountDistinctInvoices ==
    \A c \in DOMAIN customers :
        customers[c].total_transactions = Cardinality(PersistedInvoices(c))

\* the rows of the batch handed to load_data that pass its watermark check
Eligible ==
    LET W == get_max_invoice_date(tables_exist, transactions)
    IN  SelectSeq2(clean_df.rows,
                   [r \in 1..Len(clean_df.rows) |->
                       lfull \/ isna(W) \/ Cell(clean_df, r, invoice_date).n > W.n])

\* the fields of a record other than its invoice_date
SameFields(t, row) ==
    /\ t.invoice = Val(clean_df, row, invoice)
    /\ t.customer_id = Val(clean_df, row, customer_id)
    /\ t.stock_code = Val(clean_df, row, stock_code)
    /\ t.quantity = Val(clean_df, row, quantity)
    /\ t.price = Val(clean_df, row, price)
    /\ t.total_amount = Val(clean_df, row, total_amount)
    /\ t.country = Val(clean_df, row, country)

WholeSecond(c) == Ts(c.n - (c.n % TicksPerSecond))

\* C14 (amended): a committed load appends one record for each eligible row of
\* its batch, in order, carrying the row's fields with invoice_date cut to a
\* whole second, and leaves the earlier records as they were; the inserts
\* happen in one statement, issued when the customers and the products of
\* these rows have been upserted.
C14_PureAppend ==
    [][ /\ Commits =>
            /\ Len(transactions') = Len(transactions) + Len(Eligible)
            /\ SubSeq(transactions', 1, Len(transactions)) = transactions
            /\ \A i \in 1..Len(Eligible) :
                  LET t == transactions'[Len(transactions) + i]
                  IN  /\ SameFields(t, Eligible[i])
                      /\ t.invoice_date = WholeSecond(Val(clean_df, Eligible[i], invoice_date))
        /\ (conn.open /\ conn'.open /\ conn'.transactions # conn.transactions) =>
            /\ lpc = "transactions"
            /\ \A r \in 1..Len(ldf.rows) :
                  /\ Cell(ldf, r, customer_id).s \in DOMAIN conn.customers
                  /\ Cell(ldf, r, stock_code).s \in DOMAIN conn.products
      ]_vars

\* a load without full_refresh has committed: of its two rows the one dated
\* at the watermark was left out and the one dated half a second later was
\* appended, stored on the whole second
C14_Witness ==
    /\ op = "load_data" /\ ~lfull /\ run_result = "True" /\ lcommits = 1
    /\ Len(clean_df.rows) = 2
    /\ Cell(clean_df, 1, invoice_date) = Ts(FirstTick)
    /\ Cell(clean_df, 2, invoice_date) = Ts(FirstTick + 1)
    /\ Len(ldf.rows) = 1
    /\ Len(transactions) = 2
    /\ transactions[2].invoice_date = Ts(FirstTick)
    /\ SameFields(transactions[2], clean_df.rows[2])

\* C14 (as stated): every record written by a load carries the invoice_date
\* of its row.
C14_RecordsCarryRowDate ==
    lpc = "commit" =>
        \A r \in 1..Len(ldf.rows) :
            conn.transactions[Len(transactions) + r].invoice_date = Cell(ldf, r, invoice_date)

---------------------------------------------------------------------------
(* More properties of the pipeline, checked under Spec.                    *)

\* C15: a pipeline run that has ended with success has written its report
\* to the metrics file, also when its date window selected no row.
C15_SuccessfulRunWritesReport ==
    (op = "pipeline" /\ run_result = "True") =>
        /\ metrics_file # <<>>
        /\ metrics_file[1].cleaned_rows = Len(clean_df.rows)

---------------------------------------------------------------------------
(* More properties of clean_data, checked under SpecClean.                 *)

\* C16: clean_data on a batch without rows returns at once, whatever its
\* columns: no error, the batch as it came, and a report of zeros with no
\* transformation, no missing value and no invalid value.
C16_EmptyInputReturnsZeros ==
    (Len(cin.rows) = 0 /\ cpc # "start") =>
        /\ cpc = "returned" /\ cerr = ""
        /\ cdf = cin /\ Len(cdf.rows) = 0
        /\ cmetrics.original_rows = 0
        /\ cmetrics.cleaned_rows = 0
        /\ cmetrics.rejected_rows = 0
        /\ cmetrics.rejection_rate = 0
        /\ cmetrics.transformations = <<>>
        /\ cmetrics.missing_values = EmptyDict
        /\ cmetrics.invalid_values = EmptyDict

\* the call returned for a batch without rows that has no quantity column
C16_Witness ==
    /\ cpc = "returned" /\ cerr = ""
    /\ Len(cin.rows) = 0
    /\ cin.columns # <<>>
    /\ quantity \in missing_columns(CanonIn)

---------------------------------------------------------------------------
(* More properties of the loader alone, checked under SpecLoad.            *)

\* C17: load_data on a batch without rows, whatever its columns, commits
\* once and returns: no error, no statement on a cursor, nothing written,
\* the batch not filtered and the tables as they were.
C17_EmptyBatchOnlyCommits ==
    [][ (lpc = "begin" /\ Len(ldf.rows) = 0)
        => /\ lpc' = "idle" /\ lerr' = "" /\ run_result' = "True"
           /\ lcommits = 0 /\ lcommits' = 1
           /\ ldf' = ldf
           /\ NothingWritten(conn')
           /\ UNCHANGED storeVars
      ]_vars

\* load_data returned for a batch without rows and without the required
\* columns, on a store that held an earlier load
C17_Witness ==
    /\ op = "load_data" /\ run_result = "True" /\ lerr = "" /\ lcommits = 1
    /\ Len(ldf.rows) = 0
    /\ missing_load_columns(ldf) # {}
    /\ transactions # <<>>
    /\ NothingWritten(conn)

---------------------------------------------------------------------------
(* Still more properties of clean_data, checked under SpecClean.           *)

\* C18: the rows clean_data returns are rows of its input, in order, with
\* customer_id "GUEST" where it was missing and else the value as a string,
\* and description "UNKNOWN" where it was missing and else the value.
C18_MissingValuesFilled ==
    (cpc = "returned" /\ Len(cin.rows) > 0) =>
        LET in      == CanonIn
            n       == Len(in.rows)
            float   == IsFloatCol(in, customer_id)
            cust(i) == IF isna(Cell(in, i, customer_id)) THEN Str(GUEST)
                       ELSE AsStr(Cell(in, i, customer_id), float)
            desc(i) == IF isna(Cell(in, i, description)) THEN Str(UNKNOWN)
                       ELSE Cell(in, i, description)
            Exp(i)  == <<Cell(in, i, invoice), Cell(in, i, stock_code),
                         Cell(in, i, quantity), Cell(in, i, price), cust(i)>>
                       \o (IF HasCol(in, description) THEN <<desc(i)>> ELSE <<>>)
            Got(r)  == <<Cell(cdf, r, invoice), Cell(cdf, r, stock_code),
                         Cell(cdf, r, quantity), Cell(cdf, r, price),
                         Cell(cdf, r, customer_id)>>
                       \o (IF HasCol(cdf, description) THEN <<Cell(cdf, r, description)>>
                           ELSE <<>>)
        IN  \E keep \in [1..n -> BOOLEAN] :
                [r \in 1..Len(cdf.rows) |-> Got(r)] = SelectSeq2([i \in 1..n |-> Exp(i)], keep)

\* two rows came back: the first had no customer_id and is GUEST's, the
\* second had no description, is UNKNOWN and kept its customer "17"
C18_Witness ==
    /\ cpc = "returned" /\ Len(cin.rows) = 2 /\ Len(cdf.rows) = 2
    /\ HasCol(CanonIn, description)
    /\ isna(Cell(CanonIn, 1, customer_id))
    /\ Cell(cdf, 1, customer_id) = Str(GUEST)
    /\ Cell(CanonIn, 2, customer_id) = Str(<<"1", "7">>)
    /\ Cell(cdf, 2, customer_id) = Str(<<"1", "7">>)
    /\ isna(Cell(CanonIn, 2, description))
    /\ Cell(cdf, 2, description) = Str(UNKNOWN)

\* C19: canonicalizing the column names clean_data has canonicalized changes
\* nothing, and a column the mapping does not know is kept, in its place,
\* under its lower-cased, underscored, stripped name.
C19_CanonicalizationIdempotent ==
    cpc = "required" =>
        /\ StandardizeColumns(CleanLocals) = CleanLocals
        /\ Len(cdf.columns) = Len(cin.columns)
        /\ cdf.rows = cin.rows
        /\ \A j \in 1..Len(cin.columns) :
              ~InMapping(StandardizeLabel(cin.columns[j]))
                  => cdf.columns[j] = StandardizeLabel(cin.columns[j])

\* the names were canonicalized: a column the mapping does not know was kept
\* under a changed name, and a synonym was renamed
C19_Witness ==
    /\ cpc = "required"
    /\ \E j \in 1..Len(cin.columns) :
          /\ ~InMapping(StandardizeLabel(cin.columns[j]))
          /\ cdf.columns[j] # cin.columns[j]
          /\ cdf.columns[j] # <<>>
    /\ \E j \in 1..Len(cin.columns) :
          /\ InMapping(StandardizeLabel(cin.columns[j]))
          /\ cdf.columns[j] # StandardizeLabel(cin.columns[j])

---------------------------------------------------------------------------
(* Still more properties of the loader alone, checked under SpecLoad.      *)

\* the total_amount of the persisted transactions of customer c, summed
PersistedSpent(c) ==
    SumSeq([i \in 1..Len(transactions) |->
               IF transactions[i].customer_id = Str(c) /\ transactions[i].total_amount.k = "num"
               THEN transactions[i].total_amount.n ELSE 0])

\* C20: in the committed store every customer's total_spent is the sum of
\* total_amount over its transactions, and every transaction's customer_id
\* and stock_code are keys of customers and of products.
C20_TotalsMatchTransactions ==
    /\ \A c \in DOMAIN customers : customers[c].total_spent = PersistedSpent(c)
    /\ \A i \in 1..Len(transactions) :
          /\ transactions[i].customer_id.k = "str"
          /\ transactions[i].customer_id.s \in DOMAIN customers
          /\ transactions[i].stock_code.k = "str"
          /\ transactions[i].stock_code.s \in DOMAIN products

\* two loads are committed: two customers, four transactions, three of them
\* of one customer who spent 30.00
C20_Witness ==
    /\ Len(transactions) = 4
    /\ Cardinality(DOMAIN customers) = 2
    /\ \E c \in DOMAIN customers :
          /\ customers[c].total_spent = 3000
          /\ Cardinality({i \in 1..Len(transactions) : transactions[i].customer_id = Str(c)}) = 3
    /\ transactions[1] = transactions[3]

\* what load_data leaves in an empty store when it is handed the batch df
FirstLoadOf(df) ==
    [customers    |-> WriteCustomers(EmptyDict, df),
     products     |-> WriteProducts(EmptyDict, df),
     transactions |-> WriteTransactions(<<>>, df)]

\* the store is what a first load_data call with the batch of the current
\* call committed, and the current call has full_refresh=False and is past
\* its watermark check
SecondCallSameBatch ==
    /\ op = "load_data" /\ ~lfull
    /\ lpc \in {"customers", "products", "transactions", "commit"}
    /\ transactions # <<>>
    /\ customers = FirstLoadOf(clean_df).customers
    /\ products = FirstLoadOf(clean_df).products
    /\ transactions = FirstLoadOf(clean_df).transactions

\* C21: load_data called with full_refresh=False a second time with the batch
\* that the first call loaded inserts no transaction and changes no customer
\* or product row: no row of the batch passes the watermark check and the
\* connection writes nothing.
C21_SecondLoadChangesNothing ==
    SecondCallSameBatch => Len(ldf.rows) = 0 /\ NothingWritten(conn)

\* every invoice date of the batch of the current call lies on a whole second
WholeSecondBatch ==
    \A r \in 1..Len(clean_df.rows) :
        LET c == Cell(clean_df, r, invoice_date) IN c.k = "ts" /\ StrfTime(c) = c

\* a batch dated on whole seconds is not loaded a second time
WholeSecondBatchLoadedOnce ==
    (SecondCallSameBatch /\ WholeSecondBatch) => Len(ldf.rows) = 0 /\ NothingWritten(conn)

---------------------------------------------------------------------------
(* Properties of the downloader, checked under SpecDownload.               *)

\* positions of the events of kind e in the record L of one call
EventsOf(L, e) == {i \in 1..Len(L) : L[i].e = e}

\* the failed requests among the first i events of L
FailsUpTo(L, i) == Cardinality({j \in EventsOf(L, "fail") : j <= i})

\* the record of the download_with_retry call that is running or ran last
LastLog == dlog[Len(dlog)]

\* the first URL took two failed requests, each followed by a wait, and a
\* third request that brought a whole body; download_dataset has gone on
\* from there
TwoFailuresThenSuccess ==
    /\ dcall = "download_dataset"
    /\ Len(dlog) >= 1
    /\ Len(dlog[1]) = 5
    /\ \A i \in {1, 3} : dlog[1][i].e = "fail"
    /\ \A i \in {2, 4} : dlog[1][i].e = "sleep"
    /\ dlog[1][5].e = "ok"
    /\ dpc \in {"next_url", "request", "sleep", "done"}

\* C22: download_with_retry makes at most max_retries requests for one URL,
\* stops at the first request that succeeds and returns its expected size,
\* waits after a failed request that is not the last allowed one and only
\* then, and returns None only after max_retries failed requests; in
\* download_dataset, two failed requests followed by a successful third
\* give a successful download when the saved file has the declared size
\* (or no positive size was declared).
C22_RetryPolicy ==
    /\ \A u \in 1..Len(dlog) :
          LET L == dlog[u] IN
          /\ Cardinality(EventsOf(L, "fail") \cup EventsOf(L, "ok")) <= max_retries
          /\ \A i \in EventsOf(L, "ok") : i = Len(L)
          /\ \A i \in EventsOf(L, "sleep") :
                /\ i > 1 /\ L[i - 1].e = "fail"
                /\ FailsUpTo(L, i) < max_retries
                /\ L[i].n > 0
          /\ \A i \in EventsOf(L, "fail") :
                /\ i < Len(L) => L[i + 1].e = "sleep"
                /\ (i = Len(L) /\ FailsUpTo(L, i) < max_retries)
                      => (u = Len(dlog) /\ dpc = "sleep")
    /\ (dlog # <<>> /\ LastLog # <<>> /\ LastLog[Len(LastLog)].e = "ok" /\ dpc # "next_url")
          => dret = Size(LastLog[Len(LastLog)].n)
    /\ dret = None =>
          /\ dlog # <<>>
          /\ EventsOf(LastLog, "ok") = {}
          /\ Cardinality(EventsOf(LastLog, "fail")) = max_retries
          /\ (LastLog # <<>> => LastLog[Len(LastLog)].e = "fail")
    /\ (TwoFailuresThenSuccess /\ (dlog[1][5].n > 0 => dlog[1][5].body = dlog[1][5].n))
          => /\ dresult = "file_path"
             /\ dpc = "done"
             /\ Len(dlog) = 1
             /\ dfile = FileOf(dlog[1][5].body)

\* download_dataset returned file_path after two failed requests, two waits
\* and a third request that succeeded
C22_Witness ==
    /\ TwoFailuresThenSuccess
    /\ dlog[1][2].n = BackoffSeconds /\ dlog[1][4].n = 2 * BackoffSeconds
    /\ dlog[1][5].n = MaxBytes /\ dlog[1][5].body = MaxBytes
    /\ dresult = "file_path"
    /\ dret = Size(MaxBytes)
    /\ max_retries = DefaultMaxRetries

\* C22 as stated: two failed requests followed by a successful third give a
\* successful download_dataset, whatever size the response declared.
C22_ThirdSuccessDownloads ==
    TwoFailuresThenSuccess => dresult = "file_path" /\ dpc = "done"

====
